---------------------------- MODULE Spec2Model ----------------------------
(***************************************************************************)
(* A model of kubectl-view-allocations (src/src/lib.rs): the measurement   *)
(* records, the qualifier-wise sums, the recursive grouping into a forest  *)
(* of (key path, totals) nodes, the table display and do_main.             *)
(*                                                                         *)
(* Representation.                                                         *)
(*   String      a sequence of byte values, "cpu" = <<99, 112, 117>>, so   *)
(*               that substring tests and the byte-wise order of Rust's    *)
(*               String are computed, not assumed.                         *)
(*   Option<T>   a sequence of length 0 (None) or 1 (Some(x)).             *)
(*   Qty         an integer number of milli-units (src/qty.rs is not part  *)
(*               of the sources at hand; its arithmetic is exact).         *)
(***************************************************************************)
EXTENDS Integers, Sequences, FiniteSets

VARIABLES
    pc,               \* position of the running function
    resources,        \* Vec<Resource>: the flat record collection
    cli_opts,         \* CliOpts: group_by, resource_name, show_zero, utilization, output
    sum,              \* the value returned by sum_by_qualifier
    free,             \* the value returned by calc_free
    res,              \* the forest returned by make_qualifiers
    show_utilization, \* whether the utilization column is shown
    table,            \* the table printed: its titles and its rows, in order
    csv,              \* the CSV printed: its header and its rows, in order
    cluster,          \* what the cluster answers: the client, the three lists
    events,           \* the lists requested and the warnings logged, in order
    result            \* what do_main returned: "Ok" or "Err" ("" while it runs)

vars == <<pc, resources, cli_opts, sum, free, res, show_utilization, table,
          csv, cluster, events, result>>

---------------------------------------------------------------------------
(* Bounds of the model *)

\* longest record collection drawn as an input
MaxRecords == 3
\* largest quantity (in milli-units) carried by one record
MaxQty == 2
\* largest number of grouping dimensions given on the command line
MaxDepth == 2
\* largest number of resource-name filters given on the command line
MaxNames == 2

---------------------------------------------------------------------------
(* Option<T> *)

None == <<>>
Some(x) == <<x>>
IsSome(o) == o # <<>>
Unwrap(o) == o[1]

---------------------------------------------------------------------------
(* Strings *)

cpu == <<99, 112, 117>>                          \* "cpu"
memory == <<109, 101, 109, 111, 114, 121>>       \* "memory"
pods == <<112, 111, 100, 115>>                   \* "pods"
gpu == <<103, 112, 117>>                         \* "gpu"
nvidia_gpu == <<110, 118, 105, 100, 105, 97, 46, 99, 111, 109, 47, 103, 112, 117>>
                                                 \* "nvidia.com/gpu"
cpu3 == <<99, 112, 117, 51>>                     \* "cpu3"
c == <<99>>                                      \* "c"
n1 == <<110, 49>>                                \* "n1"
n2 == <<110, 50>>                                \* "n2"
ns1 == <<110, 115, 49>>                          \* "ns1"
p1 == <<112, 49>>                                \* "p1"
p2 == <<112, 50>>                                \* "p2"

\* Ord for String: byte-wise lexicographic; -1 (Less), 0 (Equal), 1 (Greater)
RECURSIVE StrCmp(_, _)
StrCmp(a, b) ==
    IF a = <<>> THEN (IF b = <<>> THEN 0 ELSE -1)
    ELSE IF b = <<>> THEN 1
    ELSE IF Head(a) < Head(b) THEN -1
    ELSE IF Head(a) > Head(b) THEN 1
    ELSE StrCmp(Tail(a), Tail(b))

\* Ord for Vec<String>: lexicographic over the segments
RECURSIVE PathCmp(_, _)
PathCmp(a, b) ==
    IF a = <<>> THEN (IF b = <<>> THEN 0 ELSE -1)
    ELSE IF b = <<>> THEN 1
    ELSE IF StrCmp(Head(a), Head(b)) # 0 THEN StrCmp(Head(a), Head(b))
    ELSE PathCmp(Tail(a), Tail(b))

\* str::contains: x occurs in name as a contiguous run of bytes
Contains(name, x) ==
    \E i \in 1..(Len(name) + 1) :
        /\ i + Len(x) - 1 <= Len(name)
        /\ SubSeq(name, i, i + Len(x) - 1) = x

---------------------------------------------------------------------------
(* Qty (src/qty.rs) *)

QtyDefault == 0
QtyAdd(a, b) == a + b
QtySub(a, b) == a - b
QtyGt(a, b) == a > b
QtyIsZero(q) == q = 0

\* Ord for Option<&Qty>: None is less than every Some
OptionQtyGt(a, b) ==
    /\ IsSome(a)
    /\ (IsSome(b) => QtyGt(Unwrap(a), Unwrap(b)))

\* std::cmp::max(v1, v2): v1 if it compares Greater, else v2
OptionQtyMax(v1, v2) == IF OptionQtyGt(v1, v2) THEN v1 ELSE v2

---------------------------------------------------------------------------
(* Records *)

Qualifiers == {"Limit", "Requested", "Allocatable", "Utilization"}

LocationDefault == [node_name |-> None, namespace |-> None, pod_name |-> None]

Resource(kind, quantity, location, qualifier) ==
    [kind |-> kind, quantity |-> quantity, location |-> location,
     qualifier |-> qualifier]

QtyByQualifierDefault ==
    [limit |-> None, requested |-> None, allocatable |-> None,
     utilization |-> None]

\* add that drops what was accumulated
add_overwrite(lhs, rhs) == Some(rhs)

\* fn add(lhs: Option<Qty>, rhs: &Qty) -> Option<Qty>
add(lhs, rhs) ==
    IF IsSome(lhs) THEN Some(QtyAdd(Unwrap(lhs), rhs)) ELSE Some(rhs)

\* calc_free without the floor at zero
calc_free_signed(self) ==
    LET total_used == OptionQtyMax(self.limit, self.requested)
    IN  IF IsSome(self.allocatable) /\ IsSome(total_used)
        THEN Some(QtySub(Unwrap(self.allocatable), Unwrap(total_used)))
        ELSE None

\* QtyByQualifier::calc_free
calc_free(self) ==
    LET total_used == OptionQtyMax(self.limit, self.requested)
    IN  IF IsSome(self.allocatable) /\ IsSome(total_used)
        THEN LET allocatable == Unwrap(self.allocatable)
                 used == Unwrap(total_used)
             IN  Some(IF QtyGt(allocatable, used)
                      THEN QtySub(allocatable, used)
                      ELSE QtyDefault)
        ELSE None

\* the closure with the limits routed into the requested bucket
Accumulate_misrouted(acc, v) ==
    CASE v.qualifier \in {"Limit", "Requested"} ->
            [acc EXCEPT !.requested = add(acc.requested, v.quantity)]
      [] v.qualifier = "Allocatable" ->
            [acc EXCEPT !.allocatable = add(acc.allocatable, v.quantity)]
      [] v.qualifier = "Utilization" ->
            [acc EXCEPT !.utilization = add(acc.utilization, v.quantity)]

\* the closure folded over the records by sum_by_qualifier
Accumulate(acc, v) ==
    CASE v.qualifier = "Limit" ->
            [acc EXCEPT !.limit = add(acc.limit, v.quantity)]
      [] v.qualifier = "Requested" ->
            [acc EXCEPT !.requested = add(acc.requested, v.quantity)]
      [] v.qualifier = "Allocatable" ->
            [acc EXCEPT !.allocatable = add(acc.allocatable, v.quantity)]
      [] v.qualifier = "Utilization" ->
            [acc EXCEPT !.utilization = add(acc.utilization, v.quantity)]

RECURSIVE Fold(_, _)
Fold(rsrcs, acc) ==
    IF rsrcs = <<>> THEN acc
    ELSE Fold(Tail(rsrcs), Accumulate(acc, Head(rsrcs)))

\* sum_by_qualifier without its test of the kinds
sum_by_qualifier_any_kind(rsrcs) ==
    IF rsrcs # <<>> THEN Some(Fold(rsrcs, QtyByQualifierDefault)) ELSE None

\* pub fn sum_by_qualifier(rsrcs: &[&Resource]) -> Option<QtyByQualifier>
sum_by_qualifier(rsrcs) ==
    IF rsrcs # <<>>
    THEN LET kind == rsrcs[1].kind
         IN  IF \A i \in DOMAIN rsrcs : rsrcs[i].kind = kind
             THEN Some(Fold(rsrcs, QtyByQualifierDefault))
             ELSE None
    ELSE None

---------------------------------------------------------------------------
(* Grouping *)

GroupBy == {"resource", "node", "pod", "namespace"}

\* extract_pod_name without its test of the kind
to_fct_pods_kept(g, e) ==
    CASE g = "resource" -> Some(e.kind)
      [] g = "node" -> e.location.node_name
      [] g = "pod" -> e.location.pod_name
      [] g = "namespace" -> e.location.namespace

\* GroupBy::to_fct with extract_kind, extract_node_name, extract_pod_name and
\* extract_namespace: the key of record e under dimension g
to_fct(g, e) ==
    CASE g = "resource" -> Some(e.kind)
      [] g = "node" -> e.location.node_name
      [] g = "pod" -> IF e.kind = pods THEN None ELSE e.location.pod_name
      [] g = "namespace" -> e.location.namespace

\* a filter that keeps the kinds equal to one of its names
accept_resource_equal(name, resource_filter) ==
    \/ resource_filter = <<>>
    \/ \E i \in DOMAIN resource_filter : name = resource_filter[i]

\* fn accept_resource(name: &str, resource_filter: &[String]) -> bool
accept_resource(name, resource_filter) ==
    \/ resource_filter = <<>>
    \/ \E i \in DOMAIN resource_filter : Contains(name, resource_filter[i])

\* .filter_map(|e| group_by(e).map(|k| (k, *e))).into_group_map(): the keys
GroupKeys(rsrcs, g) ==
    {Unwrap(to_fct(g, rsrcs[i])) : i \in {j \in DOMAIN rsrcs : IsSome(to_fct(g, rsrcs[j]))}}

\* ... and the records under key `key`, in their order in rsrcs
GroupOfKey(rsrcs, g, key) ==
    SelectSeq(rsrcs, LAMBDA e : to_fct(g, e) = Some(key))

\* a node pushed only when its totals are defined
PushGroupWithTotals(key_full, group, children) ==
    IF IsSome(sum_by_qualifier(group))
    THEN <<[path |-> key_full, qtys |-> sum_by_qualifier(group)]>> \o children
    ELSE children

\* out.push((key_full, sum_by_qualifier(&group))); out.extend(children)
PushGroup(key_full, group, children) ==
    <<[path |-> key_full, qtys |-> sum_by_qualifier(group)]>> \o children

\* fn make_group_x_qualifier: the set of vectors it can return, one for each
\* order in which the HashMap of into_group_map can be iterated (at every
\* level of the recursion).  group_by_depth counts from 0 as in the source.
RECURSIVE make_group_x_qualifier(_, _, _, _)
RECURSIVE IterateGroups(_, _, _, _, _)
make_group_x_qualifier(rsrcs, prefix, group_by_fct, group_by_depth) ==
    IF group_by_depth < Len(group_by_fct)
    THEN IterateGroups(rsrcs, prefix, group_by_fct, group_by_depth,
                       GroupKeys(rsrcs, group_by_fct[group_by_depth + 1]))
    ELSE {<<>>}

\* the body of the for loop, run over the keys left in any order
IterateGroups(rsrcs, prefix, group_by_fct, group_by_depth, keys) ==
    IF keys = {} THEN {<<>>}
    ELSE UNION {
        LET key_full == Append(prefix, key)
            group == GroupOfKey(rsrcs, group_by_fct[group_by_depth + 1], key)
        IN  {PushGroup(key_full, group, children) \o rest :
                children \in make_group_x_qualifier(group, key_full, group_by_fct,
                                                    group_by_depth + 1),
                rest \in IterateGroups(rsrcs, prefix, group_by_fct,
                                       group_by_depth, keys \ {key})}
        : key \in keys}

\* the forest left in the order of its construction
unsorted(out) == out

\* out.sort_by_key(|i| i.0.clone()): a stable sort by key path
RECURSIVE sort_by_key(_)
sort_by_key(out) ==
    IF out = <<>> THEN <<>>
    ELSE LET n == Len(out)
             sorted == sort_by_key(SubSeq(out, 1, n - 1))
             k == Cardinality({i \in DOMAIN sorted :
                                 PathCmp(sorted[i].path, out[n].path) <= 0})
         IN  SubSeq(sorted, 1, k) \o <<out[n]>> \o SubSeq(sorted, k + 1, n - 1)

\* the records make_qualifiers hands to make_group_x_qualifier
FilterResources(rsrcs, resource_names) ==
    SelectSeq(rsrcs, LAMBDA a : accept_resource(a.kind, resource_names))

\* fn make_qualifiers: the set of forests it can return
make_qualifiers(rsrcs, group_by, resource_names) ==
    {sort_by_key(out) :
        out \in make_group_x_qualifier(FilterResources(rsrcs, resource_names),
                                       <<>>, group_by, 0)}

---------------------------------------------------------------------------
(* Display *)

\* is_empty with a zero quantity taken for a value
is_empty_absent(oqty) == oqty = None

\* fn is_empty(oqty: &Option<Qty>) -> bool
is_empty(oqty) == IF IsSome(oqty) THEN QtyIsZero(Unwrap(oqty)) ELSE TRUE

\* the closure of display_with_prettytable's filter: whether line d is kept
KeepLine(d, filter_full_zero) ==
    \/ ~filter_full_zero
    \/ ~(IF IsSome(d.qtys)
          THEN LET x == Unwrap(d.qtys)
               IN  /\ x.utilization = None
                   /\ is_empty(x.requested)
                   /\ is_empty(x.limit)
                   /\ is_empty(x.allocatable)
          ELSE FALSE)

\* Vec::remove / Row::remove_cell: the cells without the one at 0-based index i
remove_cell(cells, i) == SubSeq(cells, 1, i) \o SubSeq(cells, i + 2, Len(cells))

\* make_cell_for_prettytable: "__" for an absent quantity, else the quantity
\* and, when o100 is given, its percentage of it; a cell is modelled by what
\* its text is formatted from
make_cell_for_prettytable(oqty, o100) == [qty |-> oqty, o100 |-> o100]

\* the style of a row
RowStyle(qtys) ==
    IF OptionQtyGt(qtys.requested, qtys.limit)
       \/ OptionQtyGt(qtys.utilization, qtys.limit)
    THEN "rFy"
    ELSE IF is_empty(qtys.requested) \/ is_empty(qtys.limit)
    THEN "rFy"
    ELSE "rFg"

\* the row added for a line with totals; column0 ends with the last segment
\* of the key (the branch glyphs before it come from tree::provide_prefix)
TableRow(k, qtys, with_utilization) ==
    LET cells == <<[column0 |-> k],
                   make_cell_for_prettytable(qtys.utilization, qtys.allocatable),
                   make_cell_for_prettytable(qtys.requested, qtys.allocatable),
                   make_cell_for_prettytable(qtys.limit, qtys.allocatable),
                   make_cell_for_prettytable(qtys.allocatable, None),
                   make_cell_for_prettytable(calc_free(qtys), None)>>
    IN  [key |-> k, style |-> RowStyle(qtys),
         cells |-> IF ~with_utilization THEN remove_cell(cells, 1) ELSE cells]

RowTitles ==
    <<"Resource", "Utilization", "Requested", "Limit", "Allocatable", "Free">>

\* pub fn display_with_prettytable(data, filter_full_zero, show_utilization):
\* the table it prints
display_with_prettytable(data, filter_full_zero, with_utilization) ==
    LET data2 == SelectSeq(data, LAMBDA d : KeepLine(d, filter_full_zero))
        with_totals == SelectSeq(data2, LAMBDA d : IsSome(d.qtys))
    IN  [titles |-> IF ~with_utilization THEN remove_cell(RowTitles, 1)
                    ELSE RowTitles,
         rows |-> [i \in DOMAIN with_totals |->
                     TableRow(with_totals[i].path, Unwrap(with_totals[i].qtys),
                              with_utilization)]]

NoTable == [titles |-> <<>>, rows |-> <<>>]

\* fn add_cells_for_cvs: the value and its percentage of o100, modelled by
\* what the two texts are formatted from
add_cells_for_cvs(row, oqty, o100) == Append(row, [qty |-> oqty, o100 |-> o100])

\* the row display_as_csv prints for a line with totals (the date left out)
CsvRow(k, qtys, group_by, with_utilization) ==
    LET begin == <<[kind |-> group_by[Len(k)],
                    columns |-> [i \in DOMAIN group_by |->
                                   IF i <= Len(k) THEN k[i] ELSE <<>>]]>>
        util == IF with_utilization
                THEN add_cells_for_cvs(begin, qtys.utilization, qtys.allocatable)
                ELSE begin
        req == add_cells_for_cvs(util, qtys.requested, qtys.allocatable)
        lim == add_cells_for_cvs(req, qtys.limit, qtys.allocatable)
    IN  [key |-> k,
         cells |-> lim \o <<[qty |-> qtys.allocatable, o100 |-> None],
                            [qty |-> calc_free(qtys), o100 |-> None]>>]

\* pub fn display_as_csv(data, group_by, show_utilization): what it prints
display_as_csv(data, group_by, with_utilization) ==
    LET with_totals == SelectSeq(data, LAMBDA d : IsSome(d.qtys))
    IN  [titles |-> <<"Date", "Kind">> \o group_by
                    \o (IF with_utilization
                        THEN <<"Utilization", "%Utilization">> ELSE <<>>)
                    \o <<"Requested", "%Requested", "Limit", "%Limit",
                          "Allocatable", "Free">>,
         rows |-> [i \in DOMAIN with_totals |->
                     CsvRow(with_totals[i].path, Unwrap(with_totals[i].qtys),
                            group_by, with_utilization)]]

NoCluster ==
    [client |-> FALSE, nodes |-> [ok |-> FALSE], pods |-> [ok |-> FALSE],
     metrics |-> [ok |-> FALSE]]

---------------------------------------------------------------------------
(* Inputs *)

SeqsUpTo(S, n) == UNION {[1..k -> S] : k \in 0..n}

CliOptsDefault ==
    [group_by |-> <<>>, resource_name |-> <<>>, show_zero |-> FALSE,
     utilization |-> FALSE, output |-> "table"]

\* the records handed to sum_by_qualifier on its own
SumRecords ==
    {Resource(k, q, LocationDefault, u) :
        k \in {cpu, memory}, q \in 0..MaxQty, u \in Qualifiers}

---------------------------------------------------------------------------
(* sum_by_qualifier and calc_free called on their own *)

InitSum ==
    /\ pc = "sum_by_qualifier"
    /\ resources \in SeqsUpTo(SumRecords, MaxRecords)
    /\ cli_opts = CliOptsDefault
    /\ sum = None
    /\ free = None
    /\ res = <<>>
    /\ show_utilization = FALSE
    /\ table = NoTable
    /\ csv = NoTable
    /\ cluster = NoCluster
    /\ events = <<>>
    /\ result = ""

SumByQualifierCall ==
    /\ pc = "sum_by_qualifier"
    /\ sum' = sum_by_qualifier(resources)
    /\ pc' = "calc_free"
    /\ UNCHANGED <<resources, cli_opts, free, res, show_utilization, table,
                   csv, cluster, events, result>>

CalcFreeCall ==
    /\ pc = "calc_free"
    /\ IsSome(sum)
    /\ free' = calc_free(Unwrap(sum))
    /\ pc' = "done"
    /\ UNCHANGED <<resources, cli_opts, sum, res, show_utilization, table,
                   csv, cluster, events, result>>

NextSum == SumByQualifierCall \/ CalcFreeCall

SpecSum == InitSum /\ [][NextSum]_vars

SingleKind(rsrcs) == \A i, j \in DOMAIN rsrcs : rsrcs[i].kind = rsrcs[j].kind

Summed == pc \in {"calc_free", "done"}

\* the sum of the quantities of the records at indices is
RECURSIVE SumQty(_, _)
SumQty(rsrcs, is) ==
    IF is = {} THEN 0
    ELSE LET i == CHOOSE j \in is : TRUE
         IN  rsrcs[i].quantity + SumQty(rsrcs, is \ {i})

Carrying(rsrcs, qualifier) == {i \in DOMAIN rsrcs : rsrcs[i].qualifier = qualifier}

Bucket(totals, qualifier) ==
    CASE qualifier = "Limit" -> totals.limit
      [] qualifier = "Requested" -> totals.requested
      [] qualifier = "Allocatable" -> totals.allocatable
      [] qualifier = "Utilization" -> totals.utilization

Max(a, b) == IF a >= b THEN a ELSE b

\* C1: calc_free is allocatable - max(limit, requested) floored at zero; it is
\* absent when allocatable is absent or when limit and requested both are; of
\* limit and requested the one present is the maximum when the other is absent.
C1_FreeIsAllocatableMinusUsedFlooredAtZero ==
    pc = "done" =>
        LET totals == Unwrap(sum)
            l == totals.limit
            r == totals.requested
            a == totals.allocatable
            used == IF l = None THEN r
                    ELSE IF r = None THEN l
                    ELSE Some(Max(Unwrap(l), Unwrap(r)))
        IN  /\ (a = None \/ used = None) <=> free = None
            /\ IsSome(free) =>
                   /\ Unwrap(free) = Max(Unwrap(a) - Unwrap(used), 0)
                   /\ Unwrap(free) >= 0

\* requested alone present and above allocatable: free is zero
C1_Witness ==
    /\ pc = "done"
    /\ Unwrap(sum).limit = None
    /\ IsSome(Unwrap(sum).requested)
    /\ IsSome(Unwrap(sum).allocatable)
    /\ Unwrap(Unwrap(sum).requested) > Unwrap(Unwrap(sum).allocatable)
    /\ free = Some(0)

\* C2 as stated: sum_by_qualifier returns absent only when its input is empty;
\* for every non-empty record list, of one kind or not, it returns totals.
C2_AbsentOnlyWhenEmpty ==
    Summed => (sum = None <=> resources = <<>>)

\* C2 amended: sum_by_qualifier returns absent exactly when its input is empty
\* or its records do not all share one kind; for every non-empty list of
\* records of one kind it returns totals.
C2_AbsentWhenEmptyOrMixedKinds ==
    Summed => (sum = None <=> (resources = <<>> \/ ~SingleKind(resources)))

\* a non-empty list of two kinds, summed to absent
C2_Witness ==
    /\ Summed
    /\ Len(resources) >= 2
    /\ ~SingleKind(resources)
    /\ sum = None

\* C3: for a non-empty list of records of one kind, each bucket of the totals
\* is the exact sum of the quantities of the records carrying its qualifier,
\* and is absent exactly when no record carries it; Allocatable 4, Requested
\* 500m and Requested 1500m give requested 2 and allocatable 4, no limit and
\* no utilization.
C3_BucketsAreExactSums ==
    /\ (Summed /\ resources # <<>> /\ SingleKind(resources)) =>
          /\ IsSome(sum)
          /\ \A q \in Qualifiers :
                LET bucket == Bucket(Unwrap(sum), q)
                IN  /\ bucket = None <=> Carrying(resources, q) = {}
                    /\ IsSome(bucket) =>
                          Unwrap(bucket) = SumQty(resources, Carrying(resources, q))
    /\ sum_by_qualifier(<<Resource(cpu, 4000, LocationDefault, "Allocatable"),
                          Resource(cpu, 500, LocationDefault, "Requested"),
                          Resource(cpu, 1500, LocationDefault, "Requested")>>)
          = Some([limit |-> None, requested |-> Some(2000),
                  allocatable |-> Some(4000), utilization |-> None])

\* three records of one kind: two limits added up, one utilization, no
\* requested and no allocatable
C3_Witness ==
    /\ Summed
    /\ Len(resources) = 3
    /\ SingleKind(resources)
    /\ Cardinality(Carrying(resources, "Limit")) = 2
    /\ Cardinality(Carrying(resources, "Utilization")) = 1
    /\ IsSome(sum)
    /\ Unwrap(sum).limit = Some(3)
    /\ Unwrap(sum).requested = None

---------------------------------------------------------------------------
(* make_qualifiers called on a record collection *)

Locations ==
    {[node_name |-> Some(n1), namespace |-> None, pod_name |-> None],
     [node_name |-> Some(n1), namespace |-> Some(ns1), pod_name |-> Some(p1)],
     [node_name |-> Some(n2), namespace |-> Some(ns1), pod_name |-> Some(p2)],
     [node_name |-> None, namespace |-> Some(ns1), pod_name |-> Some(p1)]}

\* requested quantities vary, the allocatable one is the largest
GroupRecords ==
    {Resource(k, q, l, "Requested") :
        k \in {cpu, pods}, q \in 1..MaxQty, l \in Locations}
    \cup {Resource(k, MaxQty, l, "Allocatable") :
        k \in {cpu, pods}, l \in Locations}

GroupBys == SeqsUpTo(GroupBy, MaxDepth)

Init ==
    /\ pc = "make_qualifiers"
    /\ resources \in SeqsUpTo(GroupRecords, MaxRecords)
    /\ \E g \in GroupBys : cli_opts = [CliOptsDefault EXCEPT !.group_by = g]
    /\ sum = None
    /\ free = None
    /\ res = <<>>
    /\ show_utilization = FALSE
    /\ table = NoTable
    /\ csv = NoTable
    /\ cluster = NoCluster
    /\ events = <<>>
    /\ result = ""

MakeQualifiersCall ==
    /\ pc = "make_qualifiers"
    /\ res' \in make_qualifiers(resources, cli_opts.group_by, cli_opts.resource_name)
    /\ pc' = "display"
    /\ UNCHANGED <<resources, cli_opts, sum, free, show_utilization, table,
                   csv, cluster, events, result>>

Next == MakeQualifiersCall

Spec == Init /\ [][Next]_vars

---------------------------------------------------------------------------
(* make_qualifiers called with resource-name filters *)

FilterRecords ==
    {Resource(k, 1, l, "Requested") :
        k \in {cpu, memory, nvidia_gpu},
        l \in {[node_name |-> Some(n1), namespace |-> None, pod_name |-> None],
               [node_name |-> Some(n2), namespace |-> Some(ns1),
                pod_name |-> Some(p1)]}}
    \cup {Resource(k, MaxQty, [node_name |-> Some(n1), namespace |-> None,
                               pod_name |-> None], "Allocatable") :
        k \in {cpu, memory, nvidia_gpu}}

FilterNames == {c, cpu3, gpu, memory}

InitFilter ==
    /\ pc = "make_qualifiers"
    /\ resources \in SeqsUpTo(FilterRecords, MaxRecords)
    /\ \E g \in SeqsUpTo({"resource", "node"}, MaxDepth),
          names \in SeqsUpTo(FilterNames, MaxNames) :
            cli_opts = [CliOptsDefault EXCEPT !.group_by = g,
                                              !.resource_name = names]
    /\ sum = None
    /\ free = None
    /\ res = <<>>
    /\ show_utilization = FALSE
    /\ table = NoTable
    /\ csv = NoTable
    /\ cluster = NoCluster
    /\ events = <<>>
    /\ result = ""

SpecFilter == InitFilter /\ [][Next]_vars

---------------------------------------------------------------------------
(* make_qualifiers and display_with_prettytable called in turn *)

TableRecords ==
    {Resource(k, q, [node_name |-> Some(n1), namespace |-> Some(ns1),
                     pod_name |-> Some(p1)], u) :
        k \in {cpu, pods}, q \in {0, MaxQty}, u \in Qualifiers}

InitTable ==
    /\ pc = "make_qualifiers"
    /\ resources \in SeqsUpTo(TableRecords, MaxRecords)
    /\ \E g \in SeqsUpTo({"resource", "node"}, MaxDepth), z \in BOOLEAN :
            cli_opts = [CliOptsDefault EXCEPT !.group_by = g, !.show_zero = z]
    /\ sum = None
    /\ free = None
    /\ res = <<>>
    /\ show_utilization \in BOOLEAN
    /\ table = NoTable
    /\ csv = NoTable
    /\ cluster = NoCluster
    /\ events = <<>>
    /\ result = ""

DisplayWithPrettytableCall ==
    /\ pc = "display"
    /\ cli_opts.output = "table"
    /\ table' = display_with_prettytable(res, ~cli_opts.show_zero, show_utilization)
    /\ pc' = "done"
    /\ UNCHANGED <<resources, cli_opts, sum, free, res, show_utilization,
                   csv, cluster, events, result>>

NextTable == MakeQualifiersCall \/ DisplayWithPrettytableCall

SpecTable == InitTable /\ [][NextTable]_vars

---------------------------------------------------------------------------
(* Vocabulary of the properties of the forest *)

IsPrefix(p, q) == Len(p) <= Len(q) /\ SubSeq(q, 1, Len(p)) = p

Parent(path) == SubSeq(path, 1, Len(path) - 1)

\* the key of a record under a dimension, as the design describes it: the
\* kind, the node name, the namespace, or the pod name of a record whose
\* kind is not "pods"
KeyOf(g, e) ==
    IF g = "resource" THEN Some(e.kind)
    ELSE IF g = "node" THEN e.location.node_name
    ELSE IF g = "namespace" THEN e.location.namespace
    ELSE IF e.kind = pods THEN None ELSE e.location.pod_name

\* the records of rsrcs whose keys at depths 1..Len(path) are the path's
Members(rsrcs, path) ==
    SelectSeq(rsrcs, LAMBDA e :
        \A d \in 1..Len(path) : KeyOf(cli_opts.group_by[d], e) = Some(path[d]))

\* the bucket-wise sum of two totals, an absent bucket counting for nothing
AddBucket(a, b) ==
    IF a = None THEN b ELSE IF b = None THEN a ELSE Some(Unwrap(a) + Unwrap(b))

AddTotals(s, t) ==
    [limit |-> AddBucket(s.limit, t.limit),
     requested |-> AddBucket(s.requested, t.requested),
     allocatable |-> AddBucket(s.allocatable, t.allocatable),
     utilization |-> AddBucket(s.utilization, t.utilization)]

\* the qualifier-wise sum of the totals of the nodes of forest at indices is;
\* a node without totals adds nothing
RECURSIVE SumOfNodes(_, _)
SumOfNodes(forest, is) ==
    IF is = {} THEN QtyByQualifierDefault
    ELSE LET i == CHOOSE j \in is : TRUE
             rest == SumOfNodes(forest, is \ {i})
         IN  IF IsSome(forest[i].qtys)
             THEN AddTotals(Unwrap(forest[i].qtys), rest)
             ELSE rest

ChildrenOf(forest, i) ==
    {j \in DOMAIN forest :
        /\ Len(forest[j].path) = Len(forest[i].path) + 1
        /\ IsPrefix(forest[i].path, forest[j].path)}

\* no record of the node's group lacks a key at the depth of its children
NoneDropped(path) ==
    LET group == Members(resources, path)
    IN  \A k \in DOMAIN group :
            IsSome(KeyOf(cli_opts.group_by[Len(path) + 1], group[k]))

Returned == pc = "display"

\* C4 as stated: every node with children has totals equal to the
\* qualifier-wise sum of the totals of its direct children, when no record of
\* its group lacks a key at the children's depth.  (Read in favour of the
\* statement: only nodes all of whose children have totals are looked at.)
C4_ParentIsSumOfChildren ==
    Returned =>
        \A i \in DOMAIN res :
            (/\ ChildrenOf(res, i) # {}
             /\ NoneDropped(res[i].path)
             /\ \A j \in ChildrenOf(res, i) : IsSome(res[j].qtys))
                => res[i].qtys = Some(SumOfNodes(res, ChildrenOf(res, i)))

\* C4 amended: every node with children whose group holds records of one
\* kind only has totals equal to the qualifier-wise sum of the totals of its
\* direct children, when no record of its group lacks a key at the
\* children's depth.
C4_ParentIsSumOfChildrenOfOneKind ==
    Returned =>
        \A i \in DOMAIN res :
            (/\ ChildrenOf(res, i) # {}
             /\ NoneDropped(res[i].path)
             /\ SingleKind(Members(resources, res[i].path)))
                => res[i].qtys = Some(SumOfNodes(res, ChildrenOf(res, i)))

\* a node of one kind with two children, none of its records dropped
C4_Witness ==
    /\ Returned
    /\ \E i \in DOMAIN res :
        /\ Cardinality(ChildrenOf(res, i)) >= 2
        /\ NoneDropped(res[i].path)
        /\ SingleKind(Members(resources, res[i].path))
        /\ IsSome(res[i].qtys)
        /\ IsSome(Unwrap(res[i].qtys).requested)
        /\ IsSome(Unwrap(res[i].qtys).allocatable)

\* the orderings of a record collection
Reorderings(rsrcs) ==
    {[i \in DOMAIN rsrcs |-> rsrcs[f[i]]] :
        f \in {g \in [DOMAIN rsrcs -> DOMAIN rsrcs] :
                  \A a, b \in DOMAIN rsrcs : a # b => g[a] # g[b]}}

\* C5: whatever the order of the records and the iteration order of the
\* grouping hash maps, make_qualifiers returns the same forest (paths, order
\* and totals) for the same grouping dimensions and filters.
C5_SameForestForEveryOrder ==
    Returned =>
        \A perm \in Reorderings(resources) :
            make_qualifiers(perm, cli_opts.group_by, cli_opts.resource_name) = {res}

\* three different records under two keys of the first dimension and two of
\* the second: six orders of the input, and hash maps with two keys at both
\* levels, which make_group_x_qualifier can emit in more than one order
C5_Witness ==
    /\ Returned
    /\ Cardinality(Reorderings(resources)) = 6
    /\ Cardinality({i \in DOMAIN res : Len(res[i].path) = 1}) = 2
    /\ Len(res) = 5
    /\ Cardinality(make_group_x_qualifier(resources, <<>>, cli_opts.group_by, 0)) > 2

\* C6: the forest is sorted by key path in lexicographic order, the parent
\* of every node of depth two or more is in the forest before it, and the
\* descendants of a node are the block that follows it.
C6_SortedPreOrder ==
    Returned =>
        /\ \A i, j \in DOMAIN res :
                i < j => PathCmp(res[i].path, res[j].path) <= 0
        /\ \A j \in DOMAIN res :
                Len(res[j].path) > 1
                    => \E i \in 1..(j - 1) : res[i].path = Parent(res[j].path)
        /\ \A i, k \in DOMAIN res :
                (i < k /\ IsPrefix(res[i].path, res[k].path))
                    => \A j \in i..k : IsPrefix(res[i].path, res[j].path)
        /\ \A i, k \in DOMAIN res :
                (IsPrefix(res[i].path, res[k].path) /\ i # k) => i < k

\* two roots with a child each
C6_Witness ==
    /\ Returned
    /\ Len(res) = 4
    /\ Len(res[1].path) = 1 /\ Len(res[2].path) = 2
    /\ Len(res[3].path) = 1 /\ Len(res[4].path) = 2

\* the depth to which a record has a key: the number of leading dimensions
\* under each of which its key is present
RECURSIVE KeyedDepth(_, _)
KeyedDepth(e, d) ==
    IF d < Len(cli_opts.group_by) /\ IsSome(KeyOf(cli_opts.group_by[d + 1], e))
    THEN KeyedDepth(e, d + 1)
    ELSE d

KeyPath(e, d) == [k \in 1..d |-> Unwrap(KeyOf(cli_opts.group_by[k], e))]

\* C8: a record whose key is absent at depth d is in no node of depth d or
\* more and makes no node of its own there, while it counts in the totals of
\* its ancestors at every depth above d: the nodes of the forest are the key
\* paths of the records down to the depth to which each has keys, and the
\* totals of a node are the sum over the records that have the keys of its
\* path.
C8_AbsentKeyDropsRecord ==
    Returned =>
        LET accepted == FilterResources(resources, cli_opts.resource_name)
        IN  /\ {res[i].path : i \in DOMAIN res}
                  = UNION {{KeyPath(accepted[r], d) :
                                d \in 1..KeyedDepth(accepted[r], 0)} :
                            r \in DOMAIN accepted}
            /\ \A i \in DOMAIN res :
                    res[i].qtys = sum_by_qualifier(Members(accepted, res[i].path))

\* a record of kind "pods" counted for its node and absent from the pod level,
\* which another record of the same node reaches
C8_Witness ==
    /\ Returned
    /\ cli_opts.group_by = <<"node", "pod">>
    /\ \E r, s \in DOMAIN resources :
        /\ resources[r].kind = pods
        /\ IsSome(resources[r].location.pod_name)
        /\ resources[s].kind = cpu
        /\ resources[s].location = resources[r].location
        /\ KeyedDepth(resources[r], 0) = 1
        /\ KeyedDepth(resources[s], 0) = 2
        /\ \E i, j \in DOMAIN res :
            /\ res[i].path = KeyPath(resources[r], 1)
            /\ res[j].path = KeyPath(resources[s], 2)
            /\ res[i].qtys = None
            /\ IsSome(res[j].qtys)

---------------------------------------------------------------------------
(* Properties of the filter and of the table *)

\* x is a substring of s: s is some bytes, then x, then some bytes
IsSubstring(x, s) ==
    \E before, after \in 0..Len(s) :
        /\ before + Len(x) + after = Len(s)
        /\ \A k \in 1..Len(x) : s[before + k] = x[k]

Accepted(kind) ==
    \/ cli_opts.resource_name = <<>>
    \/ \E i \in DOMAIN cli_opts.resource_name :
          IsSubstring(cli_opts.resource_name[i], kind)

\* C7: accept_resource accepts a kind iff the filter list is empty or the kind
\* has one of the filter strings as a substring, and the forest is built from
\* the accepted records alone: every node's path is the key path of an
\* accepted record and its totals are the sum over the accepted records of
\* its path.  Filter ["memory"] rejects cpu, ["gpu"] keeps nvidia.com/gpu,
\* ["cpu3"] rejects cpu.
C7_FilterBeforeGrouping ==
    /\ \A k \in {cpu, memory, nvidia_gpu, gpu, pods} :
          accept_resource(k, cli_opts.resource_name) <=> Accepted(k)
    /\ accept_resource(cpu, <<>>)
    /\ accept_resource(cpu, <<c>>)
    /\ accept_resource(cpu, <<cpu>>)
    /\ ~accept_resource(cpu, <<cpu3>>)
    /\ accept_resource(gpu, <<gpu>>)
    /\ accept_resource(nvidia_gpu, <<gpu>>)
    /\ ~accept_resource(cpu, <<memory>>)
    /\ Returned =>
          LET kept == SelectSeq(resources, LAMBDA e : Accepted(e.kind))
          IN  \A i \in DOMAIN res :
                /\ Members(kept, res[i].path) # <<>>
                /\ res[i].qtys = sum_by_qualifier(Members(kept, res[i].path))
                /\ \A d \in DOMAIN res[i].path :
                      cli_opts.group_by[d] = "resource" => Accepted(res[i].path[d])

\* cpu and memory records of one node under the filter ["memory"]: the node
\* has the totals of its memory record alone
C7_Witness ==
    /\ Returned
    /\ cli_opts.resource_name = <<memory>>
    /\ cli_opts.group_by = <<"node">>
    /\ \E r, m \in DOMAIN resources :
        /\ resources[r].kind = cpu
        /\ resources[m].kind = memory
        /\ resources[r].location = resources[m].location
        /\ resources[r].qualifier = resources[m].qualifier
    /\ Len(res) = 1
    /\ IsSome(res[1].qtys)
    /\ Unwrap(res[1].qtys).requested = Some(1)

Displayed == pc = "done"

AllZeroOrAbsent(x) ==
    /\ (x.requested = None \/ x.requested = Some(0))
    /\ (x.limit = None \/ x.limit = Some(0))
    /\ (x.allocatable = None \/ x.allocatable = Some(0))

RowKeys == {table.rows[i].key : i \in DOMAIN table.rows}

---------------------------------------------------------------------------
(* Quantity texts (src/qty.rs) *)

q1 == <<49>>                                     \* "1"
q2 == <<50>>                                     \* "2"
q500m == <<53, 48, 48, 109>>                     \* "500m"
qbad == <<120>>                                  \* "x"

IsDigit(b) == b \in 48..57

\* the number written by a run of decimal digits
RECURSIVE DigitsValue(_, _)
DigitsValue(text, acc) ==
    IF text = <<>> THEN acc
    ELSE DigitsValue(Tail(text), 10 * acc + (Head(text) - 48))

\* Qty::from_str on a number of digits and a suffix, "" or "m": the quantity
\* in milli-units, or an error
QtyFromStr(text) ==
    LET n == Cardinality({i \in DOMAIN text :
                            \A j \in 1..i : IsDigit(text[j])})
        value == DigitsValue(SubSeq(text, 1, n), 0)
        suffix == SubSeq(text, n + 1, Len(text))
    IN  IF n = 0 THEN [ok |-> FALSE]
        ELSE IF suffix = <<>> THEN [ok |-> TRUE, qty |-> 1000 * value]
        ELSE IF suffix = <<109>> THEN [ok |-> TRUE, qty |-> value]
        ELSE [ok |-> FALSE]

\* Qty::lowest_positive
QtyLowestPositive == 1

\* Ord::max for Qty
QtyMax(a, b) == IF QtyGt(a, b) THEN a ELSE b

---------------------------------------------------------------------------
(* BTreeMap<String, V>: the sequence of its (key, value) pairs in key order *)

MapGet(m, key) ==
    IF \E i \in DOMAIN m : m[i][1] = key
    THEN Some(m[CHOOSE i \in DOMAIN m : m[i][1] = key][2])
    ELSE None

\* insert, or the assignment through get_mut
MapPut(m, key, value) ==
    IF \E i \in DOMAIN m : m[i][1] = key
    THEN [i \in DOMAIN m |-> IF m[i][1] = key THEN <<key, value>> ELSE m[i]]
    ELSE LET k == Cardinality({i \in DOMAIN m : StrCmp(m[i][1], key) < 0})
         IN  SubSeq(m, 1, k) \o <<<<key, value>>>> \o SubSeq(m, k + 1, Len(m))

---------------------------------------------------------------------------
(* The collectors.  Each returns whether it succeeded and the record        *)
(* collection as it leaves it.                                              *)

\* collect_from_nodes: the loop over the allocatable quantities of a node
RECURSIVE PushAllocatable(_, _, _)
PushAllocatable(rs, location, als) ==
    IF als = <<>> THEN [ok |-> TRUE, resources |-> rs]
    ELSE LET quantity == QtyFromStr(Head(als)[2])
         IN  IF ~quantity.ok THEN [ok |-> FALSE, resources |-> rs]
             ELSE PushAllocatable(
                     Append(rs, Resource(Head(als)[1], quantity.qty, location,
                                         "Allocatable")),
                     location, Tail(als))

\* collect_from_nodes: the loop over the nodes
RECURSIVE CollectNodes(_, _)
CollectNodes(rs, nodes) ==
    IF nodes = <<>> THEN [ok |-> TRUE, resources |-> rs]
    ELSE LET node == Head(nodes)
             location == [LocationDefault EXCEPT !.node_name = node.name]
             pushed == IF IsSome(node.allocatable)
                       THEN PushAllocatable(rs, location, Unwrap(node.allocatable))
                       ELSE [ok |-> TRUE, resources |-> rs]
         IN  IF ~pushed.ok THEN pushed
             ELSE CollectNodes(pushed.resources, Tail(nodes))

\* pub async fn collect_from_nodes
collect_from_nodes(list, rs) ==
    IF ~list.ok THEN [ok |-> FALSE, resources |-> rs]
    ELSE CollectNodes(rs, list.items)

\* is_scheduled that takes every Pending pod for not scheduled
is_scheduled_running_only(pod) ==
    /\ IsSome(pod.status)
    /\ Unwrap(pod.status).phase = Some("Running")

\* pub fn is_scheduled(pod: &Pod) -> bool
is_scheduled(pod) ==
    LET scheduled ==
            IF IsSome(pod.status) /\ IsSome(Unwrap(pod.status).phase)
            THEN LET ps == Unwrap(pod.status)
                     phase == Unwrap(ps.phase)
                 IN  CASE phase \in {"Succeeded", "Failed"} -> Some(FALSE)
                       [] phase = "Running" -> Some(TRUE)
                       [] phase = "Unknown" -> None
                       [] phase = "Pending" ->
                            IF IsSome(ps.conditions)
                            THEN Some(\E i \in DOMAIN Unwrap(ps.conditions) :
                                        /\ Unwrap(ps.conditions)[i].type_ = "PodScheduled"
                                        /\ Unwrap(ps.conditions)[i].status = "True")
                            ELSE None
                       [] OTHER -> None
            ELSE None
    IN  IF IsSome(scheduled) THEN Unwrap(scheduled) ELSE FALSE

\* process_resources that adds whatever operation it is given
ApplyOp_always_add(op, a, b) == QtyAdd(a, b)

\* the operations process_resources is called with
ApplyOp(op, a, b) == IF op = "add" THEN QtyAdd(a, b) ELSE QtyMax(a, b)

\* fn process_resources(effective_resources, resource_list, op)
RECURSIVE process_resources(_, _, _)
process_resources(effective_resources, resource_list, op) ==
    IF resource_list = <<>> THEN [ok |-> TRUE, map |-> effective_resources]
    ELSE LET key == Head(resource_list)[1]
             quantity == QtyFromStr(Head(resource_list)[2])
             current == MapGet(effective_resources, key)
         IN  IF ~quantity.ok THEN [ok |-> FALSE, map |-> effective_resources]
             ELSE process_resources(
                     MapPut(effective_resources, key,
                            IF IsSome(current)
                            THEN ApplyOp(op, Unwrap(current), quantity.qty)
                            ELSE quantity.qty),
                     Tail(resource_list), op)

\* fn push_resources(resources, location, qualifier, resource_list)
push_resources(rs, location, qualifier, resource_list) ==
    rs \o [i \in DOMAIN resource_list |->
              Resource(resource_list[i][1], resource_list[i][2], location,
                       qualifier)]
       \o <<Resource(pods, QtyFromStr(q1).qty, location, qualifier)>>

\* collect_from_pods: the loops over the containers of a pod, for the requests
\* (which = "requests") or the limits (which = "limits")
RECURSIVE ProcessContainers(_, _, _, _)
ProcessContainers(effective, containers, which, op) ==
    IF containers = <<>> THEN [ok |-> TRUE, map |-> effective]
    ELSE LET requirements == Head(containers).resources
             list == IF IsSome(requirements)
                     THEN (IF which = "requests"
                           THEN Unwrap(requirements).requests
                           ELSE Unwrap(requirements).limits)
                     ELSE None
             done == IF IsSome(list)
                     THEN process_resources(effective, Unwrap(list), op)
                     ELSE [ok |-> TRUE, map |-> effective]
         IN  IF ~done.ok THEN done
             ELSE ProcessContainers(done.map, Tail(containers), which, op)

\* collect_from_pods: the effective requests or limits of a pod: the sum over
\* its containers, then the maximum with each init container, then the overhead
EffectiveResources(pod, which) ==
    LET containers == IF IsSome(pod.spec) THEN Unwrap(pod.spec).containers
                      ELSE <<>>
        init_containers ==
            IF IsSome(pod.spec) /\ IsSome(Unwrap(pod.spec).init_containers)
            THEN Unwrap(Unwrap(pod.spec).init_containers) ELSE <<>>
        overhead == IF IsSome(pod.spec) THEN Unwrap(pod.spec).overhead ELSE None
        regular == ProcessContainers(<<>>, containers, which, "add")
        init == IF regular.ok
                THEN ProcessContainers(regular.map, init_containers, which, "max")
                ELSE regular
    IN  IF init.ok /\ IsSome(overhead)
        THEN process_resources(init.map, Unwrap(overhead), "add")
        ELSE init

\* collect_from_pods: the loop over the scheduled pods
RECURSIVE CollectPods(_, _)
CollectPods(rs, items) ==
    IF items = <<>> THEN [ok |-> TRUE, resources |-> rs]
    ELSE LET pod == Head(items)
             location ==
                [node_name |-> IF IsSome(pod.spec) THEN Unwrap(pod.spec).node_name
                               ELSE None,
                 namespace |-> pod.metadata.namespace,
                 pod_name |-> pod.metadata.name]
             requests == EffectiveResources(pod, "requests")
             limits == EffectiveResources(pod, "limits")
         IN  IF ~is_scheduled(pod) THEN CollectPods(rs, Tail(items))
             ELSE IF ~requests.ok \/ ~limits.ok
                  THEN [ok |-> FALSE, resources |-> rs]
             ELSE CollectPods(
                     push_resources(
                         push_resources(rs, location, "Requested", requests.map),
                         location, "Limit", limits.map),
                     Tail(items))

\* pub async fn collect_from_pods
collect_from_pods(list, rs) ==
    IF ~list.ok THEN [ok |-> FALSE, resources |-> rs]
    ELSE CollectPods(rs, list.items)

UnwrapOrDefault(o) == IF IsSome(o) THEN Unwrap(o) ELSE <<>>

\* pub fn extract_locations, looked up at key: the location of the last
\* record of that namespace and pod name
LocationsGet(rs, key) ==
    LET named == {i \in DOMAIN rs :
                    /\ IsSome(rs[i].location.pod_name)
                    /\ <<UnwrapOrDefault(rs[i].location.namespace),
                          Unwrap(rs[i].location.pod_name)>> = key}
    IN  IF named = {} THEN None
        ELSE Some(rs[CHOOSE i \in named : \A j \in named : j <= i].location)

\* collect_from_metrics: the loop over the containers of a pod's metrics
RECURSIVE SumUsage(_, _, _)
SumUsage(containers, cpu_utilization, memory_utilization) ==
    IF containers = <<>>
    THEN [ok |-> TRUE, cpu |-> cpu_utilization, memory |-> memory_utilization]
    ELSE LET cpu_qty == QtyFromStr(Head(containers).usage.cpu)
             memory_qty == QtyFromStr(Head(containers).usage.memory)
         IN  IF ~cpu_qty.ok \/ ~memory_qty.ok THEN [ok |-> FALSE]
             ELSE SumUsage(Tail(containers),
                     QtyAdd(cpu_utilization, QtyMax(cpu_qty.qty, QtyLowestPositive)),
                     QtyAdd(memory_utilization,
                            QtyMax(memory_qty.qty, QtyLowestPositive)))

\* collect_from_metrics: the loop over the pod metrics; locations was
\* extracted from the records before the loop
RECURSIVE CollectMetrics(_, _, _)
CollectMetrics(rs, items, before) ==
    IF items = <<>> THEN [ok |-> TRUE, resources |-> rs]
    ELSE LET metadata == Head(items).metadata
             key == <<UnwrapOrDefault(metadata.namespace),
                      UnwrapOrDefault(metadata.name)>>
             found == LocationsGet(before, key)
             location == IF IsSome(found) THEN Unwrap(found)
                         ELSE [LocationDefault EXCEPT
                                  !.namespace = metadata.namespace,
                                  !.pod_name = metadata.name]
             usage == SumUsage(Head(items).containers, QtyDefault, QtyDefault)
         IN  IF ~usage.ok THEN [ok |-> FALSE, resources |-> rs]
             ELSE CollectMetrics(
                     rs \o <<Resource(cpu, usage.cpu, location, "Utilization"),
                              Resource(memory, usage.memory, location,
                                       "Utilization")>>,
                     Tail(items), before)

\* pub async fn collect_from_metrics
collect_from_metrics(list, rs) ==
    IF ~list.ok THEN [ok |-> FALSE, resources |-> rs]
    ELSE CollectMetrics(rs, list.items, rs)

---------------------------------------------------------------------------
(* do_main *)

\* do_main with the error of collect_from_metrics returned to its caller
MetricsOutcome_propagated(ok) == [show_utilization |-> ok, abort |-> ~ok]

\* do_main: the match on the result of collect_from_metrics
MetricsOutcome(ok) == [show_utilization |-> ok, abort |-> FALSE]

Ok(items) == [ok |-> TRUE, items |-> items]
Failed == [ok |-> FALSE]

Node(name, allocatable) == [name |-> Some(name), allocatable |-> Some(allocatable)]

Container(requests, limits) ==
    [resources |-> Some([requests |-> requests, limits |-> limits])]

Pod(name, node_name, phase, containers) ==
    [metadata |-> [name |-> Some(name), namespace |-> Some(ns1)],
     spec |-> Some([node_name |-> node_name, containers |-> containers,
                    init_containers |-> None, overhead |-> None]),
     status |-> Some([phase |-> Some(phase), conditions |-> None])]

PodMetrics(name, containers) ==
    [metadata |-> [name |-> Some(name), namespace |-> Some(ns1)],
     containers |-> containers]

Usage(cpu_text, memory_text) == [usage |-> [cpu |-> cpu_text, memory |-> memory_text]]

\* the answers to the list of the nodes: an error, no node, one node, one node
\* and a second whose memory does not parse
NodeLists ==
    {Failed,
     Ok(<<>>),
     Ok(<<Node(n1, <<<<cpu, q2>>, <<memory, q2>>>>)>>),
     Ok(<<Node(n1, <<<<cpu, q2>>>>), Node(n2, <<<<cpu, q2>>, <<memory, qbad>>>>)>>)}

\* the answers to the list of the pods: an error, no pod, a running pod with
\* a cpu request, the same beside a pod that is not scheduled, a running pod
\* with nothing asked for, a running pod whose limit does not parse
PodLists ==
    {Failed,
     Ok(<<>>),
     Ok(<<Pod(p1, Some(n1), "Running",
              <<Container(Some(<<<<cpu, q500m>>>>), Some(<<<<cpu, q1>>>>))>>)>>),
     Ok(<<Pod(p1, Some(n1), "Running",
              <<Container(Some(<<<<cpu, q500m>>>>), None)>>),
          Pod(p2, None, "Pending",
              <<Container(Some(<<<<cpu, qbad>>>>), None)>>)>>),
     Ok(<<Pod(p1, Some(n1), "Running", <<Container(None, None)>>)>>),
     Ok(<<Pod(p1, Some(n1), "Running",
              <<Container(Some(<<<<cpu, q1>>>>), Some(<<<<cpu, qbad>>>>))>>)>>)}

\* the answers to the list of the pod metrics: an error, no metrics, the
\* metrics of a pod, those of two pods the second of which does not parse,
\* those of a pod that do not parse
MetricsLists ==
    {Failed,
     Ok(<<>>),
     Ok(<<PodMetrics(p1, <<Usage(q500m, q1)>>)>>),
     Ok(<<PodMetrics(p1, <<Usage(q500m, q1)>>),
          PodMetrics(p2, <<Usage(q1, qbad)>>)>>),
     Ok(<<PodMetrics(p1, <<Usage(qbad, q1)>>)>>)}

InitMain ==
    /\ pc = "new_client"
    /\ resources = <<>>
    /\ \E g \in {<<"resource", "node", "pod">>, <<"node">>},
          z \in BOOLEAN, u \in BOOLEAN, o \in {"table", "csv"} :
            cli_opts = [CliOptsDefault EXCEPT !.group_by = g, !.show_zero = z,
                                              !.utilization = u, !.output = o]
    /\ \E client \in BOOLEAN, nodes \in NodeLists, pod_list \in PodLists,
          metrics \in MetricsLists :
            cluster = [client |-> client, nodes |-> nodes, pods |-> pod_list,
                       metrics |-> metrics]
    /\ sum = None
    /\ free = None
    /\ res = <<>>
    /\ show_utilization = FALSE
    /\ table = NoTable
    /\ csv = NoTable
    /\ events = <<>>
    /\ result = ""

\* let client = new_client(cli_opts).await?
NewClient ==
    /\ pc = "new_client"
    /\ IF cluster.client
       THEN pc' = "collect_from_nodes" /\ UNCHANGED result
       ELSE pc' = "returned" /\ result' = "Err"
    /\ UNCHANGED <<resources, cli_opts, sum, free, res, show_utilization, table,
                   csv, cluster, events>>

\* collect_from_nodes(client.clone(), &mut resources).await.with_context(..)?
CollectFromNodes ==
    /\ pc = "collect_from_nodes"
    /\ LET r == collect_from_nodes(cluster.nodes, resources)
       IN  /\ resources' = r.resources
           /\ IF r.ok
              THEN pc' = "collect_from_pods" /\ UNCHANGED result
              ELSE pc' = "returned" /\ result' = "Err"
    /\ events' = Append(events, "nodes")
    /\ UNCHANGED <<cli_opts, sum, free, res, show_utilization, table, csv,
                   cluster>>

\* collect_from_pods(client.clone(), &mut resources, ..).await.with_context(..)?
CollectFromPods ==
    /\ pc = "collect_from_pods"
    /\ LET r == collect_from_pods(cluster.pods, resources)
       IN  /\ resources' = r.resources
           /\ IF r.ok
              THEN pc' = "collect_from_metrics" /\ UNCHANGED result
              ELSE pc' = "returned" /\ result' = "Err"
    /\ events' = Append(events, "pods")
    /\ UNCHANGED <<cli_opts, sum, free, res, show_utilization, table, csv,
                   cluster>>

\* let show_utilization = match collect_from_metrics(..).await { .. }
CollectFromMetrics ==
    /\ pc = "collect_from_metrics"
    /\ LET r == collect_from_metrics(cluster.metrics, resources)
           outcome == MetricsOutcome(r.ok)
       IN  /\ resources' = r.resources
           /\ show_utilization' = outcome.show_utilization
           /\ events' = events \o <<"metrics">>
                          \o (IF ~r.ok /\ cli_opts.utilization
                              THEN <<"warn">> ELSE <<>>)
           /\ IF outcome.abort
              THEN pc' = "returned" /\ result' = "Err"
              ELSE pc' = "make_qualifiers" /\ UNCHANGED result
    /\ UNCHANGED <<cli_opts, sum, free, res, table, csv, cluster>>

\* Output::csv => display_as_csv(&res, &cli_opts.group_by, show_utilization)
DisplayAsCsvCall ==
    /\ pc = "display"
    /\ cli_opts.output = "csv"
    /\ csv' = display_as_csv(res, cli_opts.group_by, show_utilization)
    /\ pc' = "done"
    /\ UNCHANGED <<resources, cli_opts, sum, free, res, show_utilization, table,
                   cluster, events, result>>

\* Ok(())
ReturnOk ==
    /\ pc = "done"
    /\ result' = "Ok"
    /\ pc' = "returned"
    /\ UNCHANGED <<resources, cli_opts, sum, free, res, show_utilization, table,
                   csv, cluster, events>>

NextMain ==
    \/ NewClient
    \/ CollectFromNodes
    \/ CollectFromPods
    \/ CollectFromMetrics
    \/ MakeQualifiersCall
    \/ DisplayWithPrettytableCall
    \/ DisplayAsCsvCall
    \/ ReturnOk

SpecMain == InitMain /\ [][NextMain]_vars

---------------------------------------------------------------------------
(* Properties of do_main *)

Requests == SelectSeq(events, LAMBDA e : e # "warn")

BadTextIn(list) == \E i \in DOMAIN list : list[i][2] = qbad

\* the list of the nodes fails, or an allocatable quantity does not parse
NodesFail ==
    \/ ~cluster.nodes.ok
    \/ \E i \in DOMAIN cluster.nodes.items :
          BadTextIn(Unwrap(cluster.nodes.items[i].allocatable))

\* the list of the pods fails, or a quantity of a running pod does not parse
PodsFail ==
    \/ ~cluster.pods.ok
    \/ \E i \in DOMAIN cluster.pods.items :
          LET pod == cluster.pods.items[i]
              containers == Unwrap(pod.spec).containers
          IN  /\ Unwrap(pod.status).phase = Some("Running")
              /\ \E k \in DOMAIN containers :
                    LET r == Unwrap(containers[k].resources)
                    IN  \/ IsSome(r.requests) /\ BadTextIn(Unwrap(r.requests))
                        \/ IsSome(r.limits) /\ BadTextIn(Unwrap(r.limits))

\* the list of the pod metrics fails, or a usage does not parse
MetricsFail ==
    \/ ~cluster.metrics.ok
    \/ \E i \in DOMAIN cluster.metrics.items :
          \E k \in DOMAIN cluster.metrics.items[i].containers :
            LET usage == cluster.metrics.items[i].containers[k].usage
            IN  usage.cpu = qbad \/ usage.memory = qbad

Report == IF cli_opts.output = "table" THEN table ELSE csv

NothingPrinted == table = NoTable /\ csv = NoTable

\* C9: do_main asks for the nodes, then the pods, then the metrics; a failure
\* of the nodes or of the pods ends it with an error and nothing printed; a
\* failure of the metrics does not: do_main aggregates, prints, returns Ok,
\* and the utilization column is in the report iff the metrics were collected.
C9_MetricsFailureDegrades ==
    /\ \E n \in 0..3 : Requests = SubSeq(<<"nodes", "pods", "metrics">>, 1, n)
    /\ result = "Err" => NothingPrinted /\ res = <<>>
    /\ (pc = "returned" /\ cluster.client /\ (NodesFail \/ PodsFail)) =>
          /\ result = "Err"
          /\ Requests = IF NodesFail THEN <<"nodes">> ELSE <<"nodes", "pods">>
    /\ (pc = "returned" /\ cluster.client /\ ~NodesFail /\ ~PodsFail) =>
          /\ result = "Ok"
          /\ Requests = <<"nodes", "pods", "metrics">>
          /\ Report # NoTable
          /\ show_utilization <=> ~MetricsFail
          /\ (\E i \in DOMAIN Report.titles : Report.titles[i] = "Utilization")
                <=> ~MetricsFail
          /\ \A i \in DOMAIN Report.rows :
                Len(Report.rows[i].cells) = IF MetricsFail THEN 5 ELSE 6

\* the metrics of the second pod do not parse: do_main has returned Ok and
\* printed a table with rows and no utilization column
C9_Witness ==
    /\ pc = "returned"
    /\ result = "Ok"
    /\ cluster.metrics.ok
    /\ MetricsFail
    /\ cli_opts.output = "table"
    /\ table.titles = <<"Resource", "Requested", "Limit", "Allocatable", "Free">>
    /\ Len(table.rows) >= 3
    /\ Requests = <<"nodes", "pods", "metrics">>

---------------------------------------------------------------------------
(* collect_from_pods on its own: one call over the pods of a list *)

MaxContainers == 2

PodOf(name, node_name, status, containers, init_containers, overhead) ==
    [metadata |-> [name |-> Some(name), namespace |-> Some(ns1)],
     spec |-> Some([node_name |-> node_name, containers |-> containers,
                    init_containers |-> init_containers,
                    overhead |-> overhead]),
     status |-> status]

PodCondition(type_, status) == [type_ |-> type_, status |-> status]

PodStatus(phase, conditions) ==
    Some([phase |-> phase, conditions |-> conditions])

\* what a container asks for
ResourceLists ==
    {<<<<cpu, q1>>>>,
     <<<<cpu, q2>>>>,
     <<<<memory, q500m>>>>,
     <<<<cpu, q500m>>, <<memory, q2>>>>}

RegularContainers ==
    {[resources |-> None]}
    \cup {Container(Some(r), l) :
            r \in ResourceLists, l \in {None, Some(<<<<cpu, q2>>>>)}}

InitContainers ==
    {Container(Some(<<<<cpu, q2>>>>), Some(<<<<cpu, q2>>>>)),
     Container(Some(<<<<memory, q1>>>>), Some(<<<<memory, q1>>>>)),
     Container(None, Some(<<<<memory, q2>>>>)),
     Container(Some(<<<<cpu, q500m>>>>), None)}

Overheads == {None, Some(<<<<cpu, q500m>>>>), Some(<<<<memory, q1>>>>)}

Phases == {"Running", "Pending", "Succeeded", "Failed", "Unknown", "Evicted"}

ConditionLists ==
    {None,
     Some(<<>>),
     Some(<<PodCondition("PodScheduled", "True")>>),
     Some(<<PodCondition("PodScheduled", "False")>>),
     Some(<<PodCondition("Ready", "True")>>),
     Some(<<PodCondition("Ready", "True"), PodCondition("PodScheduled", "True")>>),
     Some(<<PodCondition("Ready", "True"),
            PodCondition("PodScheduled", "False")>>)}

Statuses ==
    {None}
    \cup {PodStatus(None, conditions) : conditions \in ConditionLists}
    \cup {PodStatus(Some(phase), conditions) :
            phase \in Phases, conditions \in ConditionLists}

\* running pods of every make: up to MaxContainers containers, no init
\* containers or up to MaxContainers of them, an overhead or none
RunningPods ==
    {PodOf(p1, Some(n1), PodStatus(Some("Running"), None), containers,
           init_containers, overhead) :
        containers \in SeqsUpTo(RegularContainers, MaxContainers),
        init_containers \in
            {None} \cup {Some(l) : l \in SeqsUpTo(InitContainers, MaxContainers)},
        overhead \in Overheads}

\* pods of one make in every status
PodsOfEveryStatus(name) ==
    {PodOf(name, Some(n1), status,
           <<Container(Some(<<<<cpu, q1>>>>), Some(<<<<cpu, q2>>>>))>>,
           None, None) :
        status \in Statuses}

\* a running pod without a spec
PodWithoutSpec ==
    [metadata |-> [name |-> Some(p1), namespace |-> Some(ns1)],
     spec |-> None,
     status |-> PodStatus(Some("Running"), None)]

PodItems ==
    {<<pod>> : pod \in RunningPods \cup {PodWithoutSpec}}
    \cup {<<a, b>> : a \in PodsOfEveryStatus(p1), b \in PodsOfEveryStatus(p2)}

InitPods ==
    /\ pc = "collect_from_pods"
    /\ resources \in
        {<<>>,
         <<Resource(cpu, MaxQty,
                    [LocationDefault EXCEPT !.node_name = Some(n1)],
                    "Allocatable")>>}
    /\ cli_opts = CliOptsDefault
    /\ \E items \in PodItems :
            cluster = [client |-> TRUE, nodes |-> Ok(<<>>), pods |-> Ok(items),
                       metrics |-> Failed]
    /\ sum = None
    /\ free = None
    /\ res = <<>>
    /\ show_utilization = FALSE
    /\ table = NoTable
    /\ csv = NoTable
    /\ events = <<"nodes">>
    /\ result = ""

NextPods == CollectFromPods

SpecPods == InitPods /\ [][NextPods]_vars

---------------------------------------------------------------------------
(* Properties of collect_from_pods *)

PodsCollected == pc = "collect_from_metrics"

PodLocation(pod) ==
    [node_name |-> IF IsSome(pod.spec) THEN Unwrap(pod.spec).node_name ELSE None,
     namespace |-> pod.metadata.namespace,
     pod_name |-> pod.metadata.name]

RegularOf(pod) == IF IsSome(pod.spec) THEN Unwrap(pod.spec).containers ELSE <<>>

InitOf(pod) ==
    IF IsSome(pod.spec) /\ IsSome(Unwrap(pod.spec).init_containers)
    THEN Unwrap(Unwrap(pod.spec).init_containers) ELSE <<>>

OverheadOf(pod) ==
    IF IsSome(pod.spec) /\ IsSome(Unwrap(pod.spec).overhead)
    THEN Unwrap(Unwrap(pod.spec).overhead) ELSE <<>>

\* the list of the requests (qualifier Requested) or of the limits of a
\* container, empty when it has none
AskedBy(container, qualifier) ==
    LET list == IF container.resources = None THEN None
                ELSE IF qualifier = "Requested"
                     THEN Unwrap(container.resources).requests
                     ELSE Unwrap(container.resources).limits
    IN  IF list = None THEN <<>> ELSE Unwrap(list)

Names(list, kind) == \E i \in DOMAIN list : list[i][1] = kind

\* the amount of kind in a list, nothing when the list does not name it
AmountIn(list, kind) ==
    IF Names(list, kind)
    THEN QtyFromStr(list[CHOOSE i \in DOMAIN list : list[i][1] = kind][2]).qty
    ELSE 0

RECURSIVE SumOfAmounts(_, _, _)
SumOfAmounts(containers, qualifier, kind) ==
    IF containers = <<>> THEN 0
    ELSE AmountIn(AskedBy(Head(containers), qualifier), kind)
            + SumOfAmounts(Tail(containers), qualifier, kind)

RECURSIVE MaxOfAmounts(_, _, _)
MaxOfAmounts(containers, qualifier, kind) ==
    IF containers = <<>> THEN 0
    ELSE Max(AmountIn(AskedBy(Head(containers), qualifier), kind),
             MaxOfAmounts(Tail(containers), qualifier, kind))

\* max(sum over the regular containers, maximum over the init containers)
\* plus the overhead
EffectiveAmount(pod, qualifier, kind) ==
    Max(SumOfAmounts(RegularOf(pod), qualifier, kind),
        MaxOfAmounts(InitOf(pod), qualifier, kind))
      + AmountIn(OverheadOf(pod), kind)

\* a regular container, an init container or the overhead names the kind
NamedIn(pod, qualifier, kind) ==
    \/ \E i \in DOMAIN RegularOf(pod) :
          Names(AskedBy(RegularOf(pod)[i], qualifier), kind)
    \/ \E i \in DOMAIN InitOf(pod) :
          Names(AskedBy(InitOf(pod)[i], qualifier), kind)
    \/ Names(OverheadOf(pod), kind)

PushedFor(pod, qualifier) ==
    SelectSeq(resources, LAMBDA e :
        e.location = PodLocation(pod) /\ e.qualifier = qualifier)

OfKind(rsrcs, kind) == {i \in DOMAIN rsrcs : rsrcs[i].kind = kind}

\* C11: for each scheduled pod, each of Requested and Limit and each kind,
\* collect_from_pods pushes one record of max(sum over the regular
\* containers, maximum over the init containers) plus the overhead, whatever
\* the number and the order of the containers, as soon as a regular
\* container, an init container or the overhead names the kind, and none
\* otherwise; and it pushes exactly one more record, of kind "pods" and
\* quantity 1, per qualifier and pod.
C11_EffectiveIsMaxOfSumAndInitPlusOverhead ==
    PodsCollected =>
        \A i \in DOMAIN cluster.pods.items :
            LET pod == cluster.pods.items[i]
            IN  is_scheduled(pod) =>
                  \A qualifier \in {"Requested", "Limit"} :
                    LET pushed == PushedFor(pod, qualifier)
                        named == {kind \in {cpu, memory} :
                                    NamedIn(pod, qualifier, kind)}
                    IN  /\ \A kind \in named :
                              /\ Cardinality(OfKind(pushed, kind)) = 1
                              /\ \A k \in OfKind(pushed, kind) :
                                    pushed[k].quantity
                                        = EffectiveAmount(pod, qualifier, kind)
                        /\ Cardinality(OfKind(pushed, pods)) = 1
                        /\ \A k \in OfKind(pushed, pods) :
                              pushed[k].quantity = 1000
                        /\ Len(pushed) = Cardinality(named) + 1

\* a pod of two containers asking for 500m of cpu each, an init container
\* asking for 2 and an overhead of memory that no container names: 2 of cpu
\* and 1 of memory were pushed as requested
C11_Witness ==
    /\ PodsCollected
    /\ Len(cluster.pods.items) = 1
    /\ LET pod == cluster.pods.items[1]
           pushed == PushedFor(pod, "Requested")
       IN  /\ IsSome(pod.spec)
           /\ Len(RegularOf(pod)) = 2
           /\ SumOfAmounts(RegularOf(pod), "Requested", cpu) = 1000
           /\ MaxOfAmounts(InitOf(pod), "Requested", cpu) = 2000
           /\ ~\E j \in DOMAIN RegularOf(pod) :
                    Names(AskedBy(RegularOf(pod)[j], "Requested"), memory)
           /\ ~\E j \in DOMAIN InitOf(pod) :
                    Names(AskedBy(InitOf(pod)[j], "Requested"), memory)
           /\ OverheadOf(pod) = <<<<memory, q1>>>>
           /\ \E k \in DOMAIN pushed :
                    pushed[k].kind = cpu /\ pushed[k].quantity = 2000
           /\ \E k \in DOMAIN pushed :
                    pushed[k].kind = memory /\ pushed[k].quantity = 1000
           /\ Len(pushed) = 3

\* the pod is Running, or Pending with a condition PodScheduled of status True
RunningOrPendingScheduled(pod) ==
    /\ pod.status # None
    /\ LET ps == Unwrap(pod.status)
       IN  \/ ps.phase = Some("Running")
           \/ /\ ps.phase = Some("Pending")
              /\ ps.conditions # None
              /\ \E k \in DOMAIN Unwrap(ps.conditions) :
                    Unwrap(ps.conditions)[k]
                        = PodCondition("PodScheduled", "True")

RecordsOfPod(pod) ==
    {k \in DOMAIN resources :
        resources[k].location.pod_name = pod.metadata.name}

\* C12: is_scheduled is true iff the phase of the pod is Running, or it is
\* Pending and the pod has a condition PodScheduled of status True (so it is
\* false for Succeeded, Failed, Unknown, any other phase, a missing status or
\* phase, and a Pending pod without conditions); collect_from_pods pushes
\* records for the pods on which it is true and none for the others.
C12_OnlyScheduledPodsContribute ==
    \A i \in DOMAIN cluster.pods.items :
        LET pod == cluster.pods.items[i]
        IN  /\ is_scheduled(pod) <=> RunningOrPendingScheduled(pod)
            /\ PodsCollected =>
                  (RecordsOfPod(pod) # {} <=> RunningOrPendingScheduled(pod))
            /\ PodsCollected =>
                  \A k \in RecordsOfPod(pod) :
                      resources[k].qualifier \in {"Requested", "Limit"}

\* of two Pending pods, the first without conditions and the second with
\* PodScheduled True after another condition, only the second has records
C12_Witness ==
    /\ PodsCollected
    /\ Len(cluster.pods.items) = 2
    /\ LET a == cluster.pods.items[1]
           b == cluster.pods.items[2]
       IN  /\ a.status = PodStatus(Some("Pending"), None)
           /\ b.status = PodStatus(Some("Pending"),
                            Some(<<PodCondition("Ready", "True"),
                                   PodCondition("PodScheduled", "True")>>))
           /\ RecordsOfPod(a) = {}
           /\ Cardinality(RecordsOfPod(b)) = 4

---------------------------------------------------------------------------
(* Properties of do_main after a failed collection of the metrics *)

MetricsAsked == \E i \in DOMAIN events : events[i] = "metrics"

UtilizationRecords ==
    {i \in DOMAIN resources : resources[i].qualifier = "Utilization"}

\* C13: whenever collect_from_metrics returns an error (the list request
\* fails, or a usage text does not parse part-way through the pod metrics),
\* the record collection holds no Utilization record afterwards, and every
\* utilization bucket of the forest do_main builds is absent whenever the
\* utilization column is omitted.
C13_FailedMetricsLeaveNoUtilization ==
    (MetricsAsked /\ ~show_utilization) =>
        /\ UtilizationRecords = {}
        /\ \A i \in DOMAIN res :
              IsSome(res[i].qtys) => Unwrap(res[i].qtys).utilization = None

\* the metrics of the first pod were read and those of the second do not
\* parse: do_main has returned Ok without the utilization column, the two
\* Utilization records of the first pod are in the collection and in the forest
C13_PartialMetricsKept ==
    /\ pc = "returned"
    /\ result = "Ok"
    /\ cluster.metrics.ok
    /\ ~show_utilization
    /\ Cardinality(UtilizationRecords) = 2
    /\ \E i \in DOMAIN res :
          IsSome(res[i].qtys) /\ Unwrap(res[i].qtys).utilization # None

---------------------------------------------------------------------------
(* Properties of the rows of the table *)

\* C14: every row of the table whose path has more than one segment has the
\* row of its parent path before it, for any records, any order of the
\* grouping dimensions and either setting of the zero-line filter.
C14_NoOrphanRows ==
    Displayed =>
        \A i \in DOMAIN table.rows :
            Len(table.rows[i].key) > 1 =>
                \E j \in 1..(i - 1) :
                    table.rows[j].key = Parent(table.rows[i].key)

\* grouped by node then resource, a node with records of cpu and of pods: the
\* line of the node has no totals and no row, the lines of its two kinds have
C14_OrphanRows ==
    /\ Displayed
    /\ cli_opts.group_by = <<"node", "resource">>
    /\ Len(res) = 3
    /\ res[1] = [path |-> <<n1>>, qtys |-> None]
    /\ Len(table.rows) = 2
    /\ table.rows[1].key = <<n1, cpu>>
    /\ table.rows[2].key = <<n1, pods>>

=============================================================================
